---- MODULE Spec2Model ----
(***************************************************************************)
(* Shape-level model of the Vision Transformer / Pyramid Vision            *)
(* Transformer layers of src/PVT/pvt.py and src/model.py.                  *)
(*                                                                         *)
(* A tensor is the record [ok, shape, err]: its shape when the operation   *)
(* that made it succeeded, the name of the failing operation otherwise.    *)
(* Every operation passes a failed operand through, as an exception        *)
(* leaves the rest of a Python call unexecuted.                            *)
(***************************************************************************)
EXTENDS Integers, Sequences, FiniteSets, TLC

VARIABLES
    pc,      \* "new" | "constructed" | "assert_failed" : the PVT instance
    self,    \* the PyramidVisionTransformer object (its attributes)
    error,   \* the message of the AssertionError of a failed construction
    hist     \* the forward calls made on the instance, oldest first

vars == <<pc, self, error, hist>>

----------------------------------------------------------------------------
(* Bounds of the model *)

MaxBatch == 2
MaxCalls == 2
MaxImg == 35
MaxClasses == 2
MaxSide == 8       \* image side of a PatchEmbedding on its own
MaxDim == 4        \* embedding dimension of a layer on its own
MaxHeads == 2
MaxSr == 3
MaxHW == 4         \* H and W an Attention on its own is called with
MaxSeq == 2        \* sequence length of the feature maps and of one head's q, k, v
MaxVal == 1        \* coefficients of the values of q, k, v

(* Program constants *)

DefaultImgSize == 224
DefaultPatchSize == 4
DefaultNumClasses == 1000
SmokeBatch == 4
Channels == 3

----------------------------------------------------------------------------
(* Tensors and the framework operations the layers call *)

Ok(s) == [ok |-> TRUE, shape |-> s, err |-> "none"]
Err(e) == [ok |-> FALSE, shape |-> <<>>, err |-> e]

RECURSIVE Prod(_)
Prod(s) == IF s = <<>> THEN 1 ELSE Head(s) * Prod(Tail(s))

Last(s) == s[Len(s)]
Front(s) == SubSeq(s, 1, Len(s) - 1)

\* tf.reshape(x, target): at most one -1 in target, filled from the element count.
TfReshape(x, target) ==
    IF ~x.ok THEN x
    ELSE LET elems == Prod(x.shape)
             unknown == {i \in DOMAIN target : target[i] = -1}
             known == Prod([i \in DOMAIN target |->
                              IF target[i] = -1 THEN 1 ELSE target[i]])
         IN IF unknown = {}
            THEN IF known = elems THEN Ok(target) ELSE Err("Reshape")
            ELSE IF Cardinality(unknown) > 1 \/ known = 0 \/ elems % known # 0
                 THEN Err("Reshape")
                 ELSE Ok([i \in DOMAIN target |->
                            IF target[i] = -1 THEN elems \div known ELSE target[i]])

\* layers.Reshape(target)(x): the batch dimension is kept, the rest reshaped.
KerasReshape(x, target) ==
    IF ~x.ok THEN x ELSE TfReshape(x, <<x.shape[1]>> \o target)

\* layers.Dense(units)(x): the last dimension becomes units.
Dense(x, units) ==
    IF ~x.ok THEN x ELSE Ok(Front(x.shape) \o <<units>>)

\* layers.LayerNormalization()(x): shape preserving.
LayerNormalization(x) == x

\* layers.Dropout(rate)(x): shape preserving.
Dropout(x) == x

\* Conv2D as it would be with the stride left at its default of 1.
Conv2DUnitStride(x, filters, k) ==
    IF ~x.ok THEN x
    ELSE IF Len(x.shape) # 4 \/ x.shape[2] < k \/ x.shape[3] < k
         THEN Err("Conv2D")
         ELSE Ok(<<x.shape[1], x.shape[2] - k + 1, x.shape[3] - k + 1, filters>>)

\* layers.Conv2D(filters, kernel_size=k, strides=k)(x), padding "valid".  An input
\* smaller than the kernel is rejected by the layer (or, in builds without that
\* check, gives an empty tensor that the Reshape following it rejects).
Conv2D(x, filters, k) ==
    IF ~x.ok THEN x
    ELSE IF Len(x.shape) # 4 \/ x.shape[2] < k \/ x.shape[3] < k
         THEN Err("Conv2D")
         ELSE Ok(<<x.shape[1], (x.shape[2] - k) \div k + 1,
                   (x.shape[3] - k) \div k + 1, filters>>)

Max(a, b) == IF a >= b THEN a ELSE b

\* Shapes a and b of the same rank broadcast against each other.
Broadcastable(a, b) ==
    /\ Len(a) = Len(b)
    /\ \A i \in DOMAIN a : a[i] = b[i] \/ a[i] = 1 \/ b[i] = 1

\* x + y with broadcasting.
Add(x, y) ==
    IF ~x.ok THEN x
    ELSE IF ~y.ok THEN y
    ELSE IF Broadcastable(x.shape, y.shape)
         THEN Ok([i \in DOMAIN x.shape |-> Max(x.shape[i], y.shape[i])])
         ELSE Err("Add")

\* tf.broadcast_to(x, target)
BroadcastTo(x, target) ==
    IF ~x.ok THEN x
    ELSE IF /\ Len(x.shape) = Len(target)
            /\ \A i \in DOMAIN target : x.shape[i] = target[i] \/ x.shape[i] = 1
         THEN Ok(target)
         ELSE Err("BroadcastTo")

\* concatenation of x and y along axis 1 (the second dimension)
Concat1(x, y) ==
    IF ~x.ok THEN x
    ELSE IF ~y.ok THEN y
    ELSE IF /\ Len(x.shape) = Len(y.shape)
            /\ Len(x.shape) >= 2
            /\ \A i \in DOMAIN x.shape : i # 2 => x.shape[i] = y.shape[i]
         THEN Ok([i \in DOMAIN x.shape |->
                    IF i = 2 THEN x.shape[2] + y.shape[2] ELSE x.shape[i]])
         ELSE Err("Concat")

\* tf.transpose(x, perm), perm 0-based as in the source
Transpose(x, perm) ==
    IF ~x.ok THEN x
    ELSE IF Len(perm) # Len(x.shape) THEN Err("Transpose")
    ELSE Ok([i \in DOMAIN perm |-> x.shape[perm[i] + 1]])

\* tf.matmul(a, b): batched over the leading dimensions
MatMul(a, b) ==
    IF ~a.ok THEN a
    ELSE IF ~b.ok THEN b
    ELSE LET n == Len(a.shape)
         IN IF /\ n = Len(b.shape)
               /\ n >= 2
               /\ SubSeq(a.shape, 1, n - 2) = SubSeq(b.shape, 1, n - 2)
               /\ a.shape[n] = b.shape[n - 1]
            THEN Ok(SubSeq(a.shape, 1, n - 1) \o <<b.shape[n]>>)
            ELSE Err("MatMul")

\* x[0] : the first slice along the leading dimension
Index0(x) ==
    IF ~x.ok THEN x
    ELSE IF Len(x.shape) < 1 \/ x.shape[1] < 1 THEN Err("Index")
    ELSE Ok(Tail(x.shape))

\* x[:, 0] : the first slice along the second dimension
Index1(x) ==
    IF ~x.ok THEN x
    ELSE IF Len(x.shape) < 2 \/ x.shape[2] < 1 THEN Err("Index")
    ELSE Ok(<<x.shape[1]>> \o SubSeq(x.shape, 3, Len(x.shape)))

----------------------------------------------------------------------------
(* src/PVT/pvt.py : MLP *)

MLPInit(hidden_features, out_features) ==
    [hidden_features |-> hidden_features, out_features |-> out_features]

\* MLP.call: fc1, GELU, fc2 (dropout only when training)
MLPCall(mlp, inputs) ==
    Dense(Dense(inputs, mlp.hidden_features), mlp.out_features)

----------------------------------------------------------------------------
(* src/PVT/pvt.py : Attention *)

\* A scale factor is kept by its square, the rational <<n, d>>: head_dim ** -.5 is
\* <<1, head_dim>>.  qk_scale is a rational <<n, d>>; None (like 0) is falsy.
NoScale == <<0, 1>>

RECURSIVE Gcd(_, _)
Gcd(a, b) == IF b = 0 THEN a ELSE Gcd(b, a % b)

Reduce(r) == LET g == Gcd(r[1], r[2]) IN <<r[1] \div g, r[2] \div g>>

\* self.scale = qk_scale or self.head_dim ** -.5   (as the square of the value)
AttentionScale(qk_scale, head_dim) ==
    IF qk_scale[1] # 0
    THEN Reduce(<<qk_scale[1] * qk_scale[1], qk_scale[2] * qk_scale[2]>>)
    ELSE <<1, head_dim>>

\* Attention.__init__: the assertion, then the attributes.
AttentionInit(dim, num_heads, qk_scale, sr_ratio) ==
    IF dim % num_heads # 0
    THEN [ok |-> FALSE,
          msg |-> [assert |-> "dim should be divided by num_heads",
                   a |-> dim, b |-> num_heads]]
    ELSE [ok |-> TRUE,
          dim |-> dim,
          num_heads |-> num_heads,
          head_dim |-> dim \div num_heads,
          scale |-> AttentionScale(qk_scale, dim \div num_heads),
          sr_ratio |-> sr_ratio,
          has_sr |-> sr_ratio > 1]

\* q of Attention.call: (b, N, dim) -> (b, num_heads, N, head_dim)
AttentionQ(att, inputs) ==
    Transpose(KerasReshape(Dense(inputs, att.dim),
                           <<-1, att.num_heads, att.head_dim>>),
              <<0, 2, 1, 3>>)

\* The sequence length requested of the reduced key/value source:
\* H//self.sr_ratio * W//self.sr_ratio, which Python reads left to right.
ReducedLen(H, W, sr_ratio) == ((H \div sr_ratio) * W) \div sr_ratio

\* x_ = self.sr(layers.Reshape((H, W, -1))(inputs)): the downsampled spatial map
AttentionReduced(att, inputs, H, W) ==
    Conv2D(KerasReshape(inputs, <<H, W, -1>>), att.dim, att.sr_ratio)

\* The tensor self.kv is applied to: the input reshaped to (H, W), reduced by the
\* strided convolution, flattened and normalized when sr_ratio > 1, else the input.
AttentionKVSource(att, inputs, H, W) ==
    IF att.sr_ratio > 1
    THEN LayerNormalization(
             KerasReshape(AttentionReduced(att, inputs, H, W),
                          <<ReducedLen(H, W, att.sr_ratio), -1>>))
    ELSE inputs

\* kv of Attention.call: (2, b, num_heads, M, head_dim)
AttentionKV(att, inputs, H, W) ==
    Transpose(KerasReshape(Dense(AttentionKVSource(att, inputs, H, W), 2 * att.dim),
                           <<-1, 2, att.num_heads, att.head_dim>>),
              <<2, 0, 3, 1, 4>>)

\* the attention weights: (b, num_heads, N, M)
AttentionWeights(att, inputs, H, W) ==
    LET q == AttentionQ(att, inputs)
        k == Index0(AttentionKV(att, inputs, H, W))
    IN  Dropout(MatMul(q, Transpose(k, <<0, 1, 3, 2>>)))

\* Attention.call
AttentionCall(att, inputs, H, W) ==
    LET v == Index0(AttentionKV(att, inputs, H, W))
        x == MatMul(AttentionWeights(att, inputs, H, W), v)
        y == KerasReshape(Transpose(x, <<0, 2, 1, 3>>),
                          <<-1, att.num_heads * att.head_dim>>)
    IN  Dropout(Dense(y, att.dim))

-----------------------------------------------------------------------------
(* src/PVT/pvt.py : Attention, what it computes *)

\* The layers Attention.call applies to its input to get the tensor self.kv
\* projects: the branch on self.sr_ratio > 1.
AttentionKVPath(att) ==
    IF att.sr_ratio > 1 THEN <<"Reshape", "sr", "Reshape", "norm">> ELSE <<>>

(* The values of one head.  A matrix is a sequence of rows of integers; a real *)
(* number n * sqrt(a / b) is kept exactly, by its sign and its reduced square. *)

Sign(n) == IF n > 0 THEN 1 ELSE IF n < 0 THEN -1 ELSE 0

\* n * s, s the scale whose square is the rational s2
TimesScale(n, s2) ==
    [sgn |-> Sign(n) * Sign(s2[1]),
     sq |-> Reduce(<<n * n * s2[1], s2[2]>>)]

\* n / sqrt(d)
OverSqrt(n, d) ==
    [sgn |-> Sign(n), sq |-> Reduce(<<n * n, d>>)]

\* transpose of the last two axes
MatT(m) ==
    IF m = <<>> THEN <<>>
    ELSE [j \in 1..Len(m[1]) |-> [i \in 1..Len(m) |-> m[i][j]]]

RECURSIVE Dot(_, _)
Dot(u, w) == IF u = <<>> THEN 0 ELSE Head(u) * Head(w) + Dot(Tail(u), Tail(w))

\* the matrix product a . b
MatMulV(a, b) ==
    [i \in 1..Len(a) |-> [j \in 1..Len(b[1]) |-> Dot(a[i], MatT(b)[j])]]

\* AttentionCore as it would be with the multiplication by self.scale left out.
AttentionCoreUnscaled(att, q, k, v) ==
    [softmax_of |-> [i \in 1..Len(q) |->
                       [j \in 1..Len(k) |->
                          TimesScale(MatMulV(q, MatT(k))[i][j], <<1, 1>>)]],
     axis |-> -1,
     times |-> v]

\* lines 84-91 of Attention.call on one head's q, k, v:
\* softmax(matmul(q, transpose(k)) * self.scale, axis=-1), then matmul(attention, v).
\* The softmax is kept by its argument and its axis, the product by its factors.
AttentionCore(att, q, k, v) ==
    [softmax_of |-> [i \in 1..Len(q) |->
                       [j \in 1..Len(k) |->
                          TimesScale(MatMulV(q, MatT(k))[i][j], att.scale)]],
     axis |-> -1,
     times |-> v]

-----------------------------------------------------------------------------
(* src/PVT/pvt.py : Block *)

\* int(dim * mlp_ratio)
BlockInit(dim, num_heads, mlp_ratio, qk_scale, sr_ratio) ==
    LET att == AttentionInit(dim, num_heads, qk_scale, sr_ratio)
    IN  IF ~att.ok THEN att
        ELSE [ok |-> TRUE,
              attention |-> att,
              mlp |-> MLPInit(dim * mlp_ratio, dim)]

\* the second half of Block.call: y = self.norm2(x); y = self.mlp(x); return x + y
BlockMlp(blk, x) == Add(x, MLPCall(blk.mlp, x))

\* Block.call
BlockCall(blk, inputs, H, W) ==
    BlockMlp(blk, Add(inputs,
                      AttentionCall(blk.attention, LayerNormalization(inputs), H, W)))

\* What Block.call computes, its sub-layers taken as unknown functions: a tensor is
\* the term that produced it, a layer or operator applied to terms.
Term(op, args) == [op |-> op, args |-> args]

\* x = self.norm1(inputs); x = self.attention(x, H, W); x = inputs + x
BlockAttended(inputs) ==
    Term("+", <<inputs, Term("attention", <<Term("norm1", <<inputs>>)>>)>>)

\* y = self.norm2(x); y = self.mlp(x); return x + y, given x: the second assignment
\* to y reads x, and replaces the result of self.norm2
BlockReturned(x) ==
    [x |-> x,
     norm2 |-> Term("norm2", <<x>>),
     mlp_in |-> x,
     out |-> Term("+", <<x, Term("mlp", <<x>>)>>)]

\* Block.call, as terms over its argument
BlockFlow(inputs) == BlockReturned(BlockAttended(inputs))

\* for blk in blocks: x = blk(x, H, W)
RECURSIVE Blocks(_, _, _, _)
Blocks(blocks, x, H, W) ==
    IF blocks = <<>> THEN x
    ELSE Blocks(Tail(blocks), BlockCall(Head(blocks), x, H, W), H, W)

----------------------------------------------------------------------------
(* src/PVT/pvt.py : PatchEmbedding *)

PatchEmbeddingInit(img_size, patch_size, embedding_dim) ==
    IF img_size % patch_size # 0
    THEN [ok |-> FALSE,
          msg |-> [assert |-> "img_size should be divided by patch_size",
                   a |-> img_size, b |-> patch_size]]
    ELSE [ok |-> TRUE,
          img_size |-> img_size,
          patch_size |-> patch_size,
          embedding_dim |-> embedding_dim,
          H |-> img_size \div patch_size,
          W |-> img_size \div patch_size,
          num_patches |-> (img_size \div patch_size) * (img_size \div patch_size)]

\* PatchEmbedding.call: the sequence and (H, W)
PatchEmbeddingCall(pe, inputs) ==
    [x |-> LayerNormalization(
               KerasReshape(Conv2D(inputs, pe.embedding_dim, pe.patch_size),
                            <<pe.num_patches, pe.embedding_dim>>)),
     H |-> pe.H,
     W |-> pe.W]

----------------------------------------------------------------------------
(* src/PVT/pvt.py : PyramidVisionTransformer *)

\* [Block(dim=embed_dims[i], num_heads=num_heads[i], ...) for _ in range(depths[i])]
BlockList(cfg, i) ==
    [j \in 1..cfg.depths[i] |->
        BlockInit(cfg.embed_dims[i], cfg.num_heads[i], cfg.mlp_ratios[i],
                  cfg.qk_scale, cfg.sr_ratios[i])]

\* The image size each stage's PatchEmbedding is constructed with.
StageImgSize(cfg, i) ==
    IF i = 1 THEN cfg.img_size
    ELSE IF i = 2 THEN cfg.img_size \div 4
    ELSE IF i = 3 THEN cfg.img_size \div 8
    ELSE cfg.img_size \div 16

\* The patch size each stage's PatchEmbedding is constructed with.
StagePatchSize(cfg, i) == IF i = 1 THEN cfg.patch_size ELSE 2

\* PyramidVisionTransformer.__init__: the four patch embeddings, the position
\* embeddings, the four block lists, the class token and the head, in this order;
\* the first failing assertion ends the construction.
PVTInit(cfg) ==
    LET pe == [i \in 1..4 |->
                 PatchEmbeddingInit(StageImgSize(cfg, i), StagePatchSize(cfg, i),
                                    cfg.embed_dims[i])]
        badPe == {i \in 1..4 : ~pe[i].ok}
        blocks == [i \in 1..4 |-> BlockList(cfg, i)]
        badBlk == {i \in 1..4 : \E j \in DOMAIN blocks[i] : ~blocks[i][j].ok}
        first(S) == CHOOSE i \in S : \A k \in S : i <= k
    IN  IF badPe # {} THEN [ok |-> FALSE, msg |-> pe[first(badPe)].msg]
        ELSE IF badBlk # {} THEN [ok |-> FALSE, msg |-> blocks[first(badBlk)][1].msg]
        ELSE [ok |-> TRUE,
              obj |-> [num_classes |-> cfg.num_classes,
                       depths |-> cfg.depths,
                       patch_embed |-> pe,
                       pos_embed |-> [i \in 1..4 |->
                           Ok(<<1, pe[i].num_patches + (IF i = 4 THEN 1 ELSE 0),
                                cfg.embed_dims[i]>>)],
                       block |-> blocks,
                       cls_token |-> Ok(<<1, 1, cfg.embed_dims[4]>>),
                       dense |-> cfg.num_classes]]

\* The first block's attention call of a stage, [called, inputs, H, W, sr_ratio, out].
AttentionTrace(blocks, x, H, W) ==
    IF x.ok /\ blocks # <<>>
    THEN [called |-> TRUE, inputs |-> x, H |-> H, W |-> W,
          sr_ratio |-> blocks[1].attention.sr_ratio,
          out |-> AttentionCall(blocks[1].attention, LayerNormalization(x), H, W)]
    ELSE [called |-> FALSE, inputs |-> x, H |-> H, W |-> W, sr_ratio |-> 0, out |-> x]

\* self.cls_token = tf.broadcast_to(self.cls_token, [B, 1, self.cls_token.shape[-1]])
\* the broadcast, given the tensor p the patch embedding returned
ClsBroadcast(obj, B) ==
    BroadcastTo(obj.cls_token, <<B, 1, Last(obj.cls_token.shape)>>)

\* the value of self.cls_token after stage i: assigned in stage 4, when the
\* statement is reached and the broadcast succeeds
StageCls(obj, i, p, bc) ==
    IF i = 4 /\ p.x.ok /\ bc.ok THEN bc ELSE obj.cls_token

\* StageTokens as it would be with the class token concatenated in every stage.
StageTokensEveryStage(i, p, bc) ==
    IF ~p.x.ok THEN p.x ELSE Concat1(bc, p.x)

\* the sequence the position embedding is added to: in stage 4 the class token
\* concatenated in front of the patches
StageTokens(i, p, bc) ==
    IF i = 4
    THEN IF ~p.x.ok THEN p.x ELSE Concat1(bc, p.x)
    ELSE p.x

\* position embedding, dropout, the blocks
StageBlocks(obj, i, recv, p, cls, x) ==
    [recv |-> recv,
     cls |-> cls,
     seq |-> Blocks(obj.block[i], x, p.H, p.W),
     att |-> AttentionTrace(obj.block[i], x, p.H, p.W),
     H |-> p.H,
     W |-> p.W]

StageWith(obj, i, recv, p, bc) ==
    StageBlocks(obj, i, recv, p, StageCls(obj, i, p, bc),
                Dropout(Add(StageTokens(i, p, bc), obj.pos_embed[i])))

\* One stage of PyramidVisionTransformer.call: patch embedding, the class token
\* (stage 4 only, by a broadcast of the stored attribute that is assigned back to
\* it), position embedding, dropout, the blocks.
\*   recv:  the tensor the stage's patch embedding receives
\*   cls:   the value of self.cls_token after the stage
\*   seq:   the sequence the blocks return
\*   att:   the first block's attention call
Stage(obj, i, B, recv) ==
    StageWith(obj, i, recv, PatchEmbeddingCall(obj.patch_embed[i], recv),
              ClsBroadcast(obj, B))

\* Stages i..4 in order, each fed the previous stage's sequence reshaped back to
\* spatial form: x = layers.Reshape([H, W, -1])(x)
RECURSIVE StagesFrom(_, _, _, _)
StagesAfter(obj, i, B, s) ==
    IF i = 4 THEN <<s>>
    ELSE <<s>> \o StagesFrom(obj, i + 1, B, KerasReshape(s.seq, <<s.H, s.W, -1>>))

StagesFrom(obj, i, B, recv) == StagesAfter(obj, i, B, Stage(obj, i, B, recv))

\* the end of PyramidVisionTransformer.call: the final normalization, the class
\* token's position and the head
PVTHead(obj, B, stages) ==
    [B |-> B,
     stages |-> stages,
     cls_token |-> stages[4].cls,
     out |-> Dense(Index1(LayerNormalization(stages[4].seq)), obj.dense)]

\* PyramidVisionTransformer.call on a batch of images
PVTCall(obj, inputs) ==
    PVTHead(obj, inputs.shape[1], StagesFrom(obj, 1, inputs.shape[1], inputs))

----------------------------------------------------------------------------
(* src/model.py : ClassToken, PositionEmbedding, Attention *)

NoWeight == Err("None")

\* ClassToken.__init__
ClassTokenInit == [built |-> FALSE, num_features |-> 0, cls_w |-> NoWeight]

\* ClassToken.build(input_shape), run by the first call of the layer
ClassTokenBuild(layer, input_shape) ==
    IF layer.built THEN layer
    ELSE [built |-> TRUE,
          num_features |-> Last(input_shape),
          cls_w |-> Ok(<<1, 1, Last(input_shape)>>)]

\* ClassToken.call as it would be with the weight not broadcast over the batch.
ClassTokenCallUnbroadcast(layer, inputs) ==
    Concat1(layer.cls_w, inputs)

\* ClassToken.call: the weight broadcast over the batch, in front of the inputs
ClassTokenCall(layer, inputs) ==
    Concat1(BroadcastTo(layer.cls_w, <<inputs.shape[1], 1, layer.num_features>>),
            inputs)

\* the row of the class token weight; row n of batch element b of an input is <<b, n>>
ClsRow == <<0, 0>>

\* The rows (sequence positions) of ClassToken.call's result, per batch element:
\* the broadcast weight's row, then the rows of the inputs.
ClassTokenRows(layer, inputs, rows) ==
    [b \in 1..inputs.shape[1] |-> <<ClsRow>> \o rows[b]]

\* PositionEmbedding.__init__
PositionEmbeddingInit == [built |-> FALSE, pos_w |-> NoWeight]

\* PositionEmbedding.build(input_shape): the assertion, then the weight
PositionEmbeddingBuild(layer, input_shape) ==
    IF layer.built THEN layer
    ELSE IF Len(input_shape) # 3 THEN layer
    ELSE [built |-> TRUE, pos_w |-> Ok(<<1, input_shape[2], input_shape[3]>>)]

\* PositionEmbedding.call
PositionEmbeddingCall(layer, inputs) == Add(inputs, layer.pos_w)

\* Attention.__init__ of model.py: no assertion
ViTAttentionInit(num_features, num_heads) ==
    [ok |-> TRUE,
     num_features |-> num_features,
     num_heads |-> num_heads,
     project_dim |-> num_features \div num_heads]

\* query, key and value of Attention.call, each (b, num_heads, N, project_dim):
\* they are inputs[0], inputs[1], inputs[2] of the transposed tensor
ViTAttentionQKV(att, inputs) ==
    Index0(Transpose(TfReshape(inputs, <<inputs.shape[1], -1, 3, att.num_heads,
                                         att.project_dim>>),
                     <<2, 0, 3, 1, 4>>))

\* the rest of Attention.call, given query = key = value's shape
ViTAttend(att, batch_size, qkv) ==
    TfReshape(Transpose(MatMul(MatMul(qkv, Transpose(qkv, <<0, 1, 3, 2>>)), qkv),
                        <<0, 2, 1, 3>>),
              <<batch_size, -1, att.num_features>>)

\* Attention.call of model.py
ViTAttentionCall(att, inputs) ==
    ViTAttend(att, inputs.shape[1], ViTAttentionQKV(att, inputs))

\* lines 104-110 of Attention.call on one head's query, key, value:
\* softmax(matmul(query, key, transpose_b=True) / sqrt(project_dim), axis=-1),
\* then matmul(weights, value).
ViTAttentionCore(att, query, key, value) ==
    [softmax_of |-> [i \in 1..Len(query) |->
                       [j \in 1..Len(key) |->
                          OverSqrt(Dot(query[i], key[j]), att.project_dim)]],
     axis |-> -1,
     times |-> value]

-----------------------------------------------------------------------------
(* The constructor arguments and batches explored *)

ImgSizes == (1..MaxImg) \cup {64}
PatchSizes == {1, 2, 4, 8}
EmbedDims == {<<2, 4, 6, 8>>, <<3, 3, 3, 3>>, <<4, 4, 4, 4>>}
NumHeads == {<<1, 1, 1, 1>>, <<1, 2, 3, 4>>}
Depths == {<<1, 1, 1, 1>>, <<0, 0, 0, 0>>, <<2, 1, 0, 1>>}
SrRatios == {<<1, 1, 1, 1>>, <<2, 2, 2, 1>>, <<1, 1, 1, 2>>, <<3, 1, 1, 1>>,
             <<8, 4, 2, 1>>}

Configs ==
    [img_size : ImgSizes, patch_size : PatchSizes, num_classes : 1..MaxClasses,
     embed_dims : EmbedDims, num_heads : NumHeads, mlp_ratios : {<<4, 4, 4, 4>>},
     qk_scale : {NoScale}, depths : Depths, sr_ratios : SrRatios]

\* PyramidVisionTransformer(): the defaults of __init__
DefaultConfig ==
    [img_size |-> DefaultImgSize, patch_size |-> DefaultPatchSize,
     num_classes |-> DefaultNumClasses,
     embed_dims |-> <<64, 128, 256, 512>>, num_heads |-> <<1, 2, 4, 8>>,
     mlp_ratios |-> <<4, 4, 4, 4>>, qk_scale |-> NoScale,
     depths |-> <<3, 4, 6, 3>>, sr_ratios |-> <<8, 4, 2, 1>>]

NoModel == [constructed |-> FALSE]
NoError == [assert |-> "none", a |-> 0, b |-> 0]

----------------------------------------------------------------------------
(* The PVT instance as a state machine *)

Init ==
    /\ pc = "new"
    /\ self = NoModel
    /\ error = NoError
    /\ hist = <<>>

Constructed(cfg) ==
    LET r == PVTInit(cfg)
    IN  IF r.ok
        THEN /\ pc' = "constructed"
             /\ self' = r.obj
             /\ error' = NoError
        ELSE /\ pc' = "assert_failed"
             /\ self' = NoModel
             /\ error' = r.msg

\* pvt = PyramidVisionTransformer(...) with explicit arguments
Construct ==
    /\ pc = "new"
    /\ \E cfg \in Configs : Constructed(cfg)
    /\ UNCHANGED hist

\* pvt = PyramidVisionTransformer()
ConstructDefault ==
    /\ pc = "new"
    /\ Constructed(DefaultConfig)
    /\ UNCHANGED hist

Record(r) ==
    /\ self' = [self EXCEPT !.cls_token = r.cls_token]
    /\ hist' = Append(hist, r)
    /\ UNCHANGED <<pc, error>>

Called(B) ==
    Record(PVTCall(self, Ok(<<B, self.patch_embed[1].img_size,
                              self.patch_embed[1].img_size, Channels>>)))

\* outputs = pvt(inputs), inputs shaped (B, img_size, img_size, 3)
Forward ==
    /\ pc = "constructed"
    /\ Len(hist) < MaxCalls
    /\ \E B \in 1..MaxBatch : Called(B)

\* the smoke test of __main__: the default model on a batch of 4
ForwardSmoke ==
    /\ pc = "constructed"
    /\ hist = <<>>
    /\ self.patch_embed[1].img_size = DefaultImgSize
    /\ Called(SmokeBatch)

Next == Construct \/ ConstructDefault \/ Forward \/ ForwardSmoke

Spec == Init /\ [][Next]_vars

-----------------------------------------------------------------------------
(* The layers on their own, as their __main__ tests use them: one layer (or the *)
(* ClassToken / PositionEmbedding pair) is constructed, then called.            *)

QkScales == {NoScale, <<1, 2>>, <<2, 1>>}
FeatureDims == {1, 2, 3}

\* an n x d matrix of small integers, from three coefficients
Mat(n, d, a, b) ==
    [i \in 1..n |-> [j \in 1..d |-> ((a * i + b * j + i * j) % (MaxVal + 2)) - 1]]

LInit ==
    /\ pc = "new"
    /\ self = NoModel
    /\ error = NoError
    /\ hist = <<>>

Made(kind, obj) ==
    IF obj.ok
    THEN /\ pc' = "constructed"
         /\ self' = [kind |-> kind, layer |-> obj, in_channels |-> 0]
         /\ error' = NoError
         /\ UNCHANGED hist
    ELSE /\ pc' = "assert_failed"
         /\ self' = NoModel
         /\ error' = obj.msg
         /\ UNCHANGED hist

Returned(r) ==
    /\ hist' = Append(hist, r)
    /\ UNCHANGED <<pc, self, error>>

\* PatchEmbedding(img_size, patch_size, embedding_dim)
NewPatchEmbedding ==
    /\ pc = "new"
    /\ \E img_size \in 1..MaxSide, patch_size \in 1..MaxSide, dim \in 1..MaxDim :
          Made("PatchEmbedding", PatchEmbeddingInit(img_size, patch_size, dim))

\* The layer's projection is built by the first call, for that call's channels; it
\* rejects an input of another channel count.
PatchEmbeddingCalled(x, built) ==
    /\ self' = [self EXCEPT !.in_channels = built]
    /\ hist' = Append(hist,
                 [op |-> "PatchEmbedding", inputs |-> x, built_for |-> built,
                  out |-> IF x.shape[4] = built
                          THEN PatchEmbeddingCall(self.layer, x)
                          ELSE [x |-> Err("Conv2D"), H |-> self.layer.H,
                                W |-> self.layer.W]])
    /\ UNCHANGED <<pc, error>>

\* the layer called on a batch of images of its img_size, of C channels
CallPatchEmbedding ==
    /\ pc = "constructed"
    /\ self.kind = "PatchEmbedding"
    /\ Len(hist) < MaxCalls
    /\ \E B \in 1..MaxBatch, C \in 1..Channels :
          PatchEmbeddingCalled(
              Ok(<<B, self.layer.img_size, self.layer.img_size, C>>),
              IF self.in_channels = 0 THEN C ELSE self.in_channels)

\* Attention(dim, num_heads, qk_scale=..., sr_ratio=...) of pvt.py
NewAttention ==
    /\ pc = "new"
    /\ \E dim \in 1..MaxDim, num_heads \in 1..MaxHeads, qk_scale \in QkScales,
          sr_ratio \in 1..MaxSr :
          Made("Attention", AttentionInit(dim, num_heads, qk_scale, sr_ratio))

AttentionRecord(att, x, H, W) ==
    [op |-> "Attention", inputs |-> x, H |-> H, W |-> W,
     q |-> AttentionQ(att, x),
     path |-> AttentionKVPath(att),
     reduced |-> IF att.sr_ratio > 1 THEN AttentionReduced(att, x, H, W) ELSE x,
     reduced_len |-> IF att.sr_ratio > 1 THEN ReducedLen(H, W, att.sr_ratio)
                     ELSE x.shape[2],
     src |-> AttentionKVSource(att, x, H, W),
     kv |-> AttentionKV(att, x, H, W),
     weights |-> AttentionWeights(att, x, H, W),
     out |-> AttentionCall(att, x, H, W)]

\* the layer called on a sequence of H*W positions, or of H*W + 1 (the class token)
CallAttention ==
    /\ pc = "constructed"
    /\ self.kind = "Attention"
    /\ hist = <<>>
    /\ \E B \in 1..MaxBatch, H \in 1..MaxHW, W \in 1..MaxHW, cls \in {0, 1} :
          Returned(AttentionRecord(self.layer, Ok(<<B, H * W + cls, self.layer.dim>>),
                                   H, W))

CoreRecord(att, q, k, v) ==
    [op |-> "AttentionCore", q |-> q, k |-> k, v |-> v,
     pvt |-> AttentionCore(att, q, k, v),
     vit |-> ViTAttentionCore(ViTAttentionInit(att.dim, att.num_heads), q, k, v)]

\* one head's q, k, v given to the attention computation of the layer, and to that
\* of model.py's Attention of the same width and head count
CompareAttention ==
    /\ pc = "constructed"
    /\ self.kind = "Attention"
    /\ hist = <<>>
    /\ \E n \in 1..MaxSeq, a \in 0..MaxVal, b \in 0..MaxVal, c \in 0..MaxVal,
          d \in 0..MaxVal, e \in 0..MaxVal :
          Returned(CoreRecord(self.layer,
                              Mat(n, self.layer.head_dim, a, b),
                              Mat(n, self.layer.head_dim, c, d),
                              Mat(n, self.layer.head_dim, e, e)))

\* Attention(num_features, num_heads) of model.py
NewViTAttention ==
    /\ pc = "new"
    /\ \E num_features \in 1..MaxDim, num_heads \in 1..MaxHeads :
          Made("ViTAttention", ViTAttentionInit(num_features, num_heads))

\* the layer called on (B, N, 3 * num_features)
CallViTAttention ==
    /\ pc = "constructed"
    /\ self.kind = "ViTAttention"
    /\ hist = <<>>
    /\ \E B \in 1..MaxBatch, N \in 1..MaxSeq + 1 :
          Returned([op |-> "ViTAttention",
                    inputs |-> Ok(<<B, N, 3 * self.layer.num_features>>),
                    out |-> ViTAttentionCall(self.layer,
                                             Ok(<<B, N, 3 * self.layer.num_features>>))])

MlpRatios == {1, 4}

\* Block(dim, num_heads, mlp_ratio=..., sr_ratio=...)
NewBlock ==
    /\ pc = "new"
    /\ \E dim \in 1..MaxDim, num_heads \in 1..MaxHeads, mlp_ratio \in MlpRatios,
          sr_ratio \in 1..MaxSr :
          Made("Block", BlockInit(dim, num_heads, mlp_ratio, NoScale, sr_ratio))

BlockRecord(blk, x, H, W) ==
    [op |-> "Block", inputs |-> x, H |-> H, W |-> W,
     flow |-> BlockFlow(Term("inputs", <<>>)),
     out |-> BlockCall(blk, x, H, W)]

\* the block called on a sequence of H*W positions, or of H*W + 1 (the class token)
CallBlock ==
    /\ pc = "constructed"
    /\ self.kind = "Block"
    /\ hist = <<>>
    /\ \E B \in 1..MaxBatch, H \in 1..MaxHW, W \in 1..MaxHW, cls \in {0, 1} :
          Returned(BlockRecord(self.layer,
                               Ok(<<B, H * W + cls, self.layer.attention.dim>>), H, W))

\* clsToken = ClassToken(); posEmbedding = PositionEmbedding()
NewTokenLayers ==
    /\ pc = "new"
    /\ pc' = "constructed"
    /\ self' = [kind |-> "TokenLayers", clsToken |-> ClassTokenInit,
                posEmbedding |-> PositionEmbeddingInit]
    /\ UNCHANGED <<error, hist>>

InputRows(B, N) == [b \in 1..B |-> [n \in 1..N |-> <<b, n>>]]

ClassTokenCalled(layer, x) ==
    /\ self' = [self EXCEPT !.clsToken = layer]
    /\ hist' = Append(hist, [op |-> "ClassToken", inputs |-> x,
                             built_for |-> layer.cls_w,
                             out |-> ClassTokenCall(layer, x),
                             rows |-> ClassTokenRows(layer, x,
                                          InputRows(x.shape[1], x.shape[2]))])
    /\ UNCHANGED <<pc, error>>

\* inputs = clsToken(feature_maps): the layer is built by its first call
CallClassToken ==
    /\ pc = "constructed"
    /\ self.kind = "TokenLayers"
    /\ Cardinality({k \in DOMAIN hist : hist[k].op = "ClassToken"}) < MaxCalls
    /\ \E B \in 1..MaxBatch, N \in 0..MaxSeq, D \in FeatureDims :
          ClassTokenCalled(ClassTokenBuild(self.clsToken, <<B, N, D>>),
                           Ok(<<B, N, D>>))

PositionEmbeddingCalled(layer, x) ==
    /\ self' = [self EXCEPT !.posEmbedding = layer]
    /\ hist' = Append(hist, [op |-> "PositionEmbedding", inputs |-> x,
                             built_for |-> layer.pos_w,
                             out |-> PositionEmbeddingCall(layer, x),
                             rows |-> <<>>])
    /\ UNCHANGED <<pc, error>>

\* posEmbedding(inputs), inputs the result of the ClassToken call before it
CallPositionEmbedding ==
    /\ pc = "constructed"
    /\ self.kind = "TokenLayers"
    /\ hist # <<>>
    /\ Last(hist).op = "ClassToken"
    /\ Last(hist).out.ok
    /\ PositionEmbeddingCalled(
           PositionEmbeddingBuild(self.posEmbedding, Last(hist).out.shape),
           Last(hist).out)

LNext ==
    \/ NewPatchEmbedding \/ CallPatchEmbedding
    \/ NewAttention \/ CallAttention \/ CompareAttention
    \/ NewViTAttention \/ CallViTAttention
    \/ NewBlock \/ CallBlock
    \/ NewTokenLayers \/ CallClassToken \/ CallPositionEmbedding

SpecLayers == LInit /\ [][LNext]_vars

-----------------------------------------------------------------------------
(* Properties of the PVT instance, checked under Spec *)

Logits(r) == Ok(<<r.B, self.num_classes>>)

\* the model PyramidVisionTransformer() builds, whatever its class token has become
IsDefault ==
    /\ pc = "constructed"
    /\ [self EXCEPT !.cls_token = Ok(<<1, 1, 512>>)] = PVTInit(DefaultConfig).obj

\* C1: for every configuration whose construction completes and every batch size,
\* the first forward call completes without a shape error and returns logits
\* shaped (B, num_classes).
C1_FirstForwardReturnsLogits ==
    (pc = "constructed" /\ hist # <<>>) => hist[1].out = Logits(hist[1])

\* C2: the default model on a batch of 4 images of 224x224x3 passes through the
\* four stages with sequences shaped (4,3136,64), (4,784,128), (4,196,256) and
\* (4,50,512), the class token being added in the fourth stage only, and returns a
\* tensor shaped (4, 1000).
C2_DefaultSmokeShapes ==
    (IsDefault /\ hist # <<>> /\ hist[1].B = SmokeBatch) =>
        /\ [i \in 1..4 |-> hist[1].stages[i].seq] =
              <<Ok(<<4, 3136, 64>>), Ok(<<4, 784, 128>>),
                Ok(<<4, 196, 256>>), Ok(<<4, 50, 512>>)>>
        /\ \A i \in 1..4 :
              hist[1].stages[i].seq.shape[2] =
                 hist[1].stages[i].H * hist[1].stages[i].W + (IF i = 4 THEN 1 ELSE 0)
        /\ hist[1].out = Ok(<<4, 1000>>)

C2_Witness ==
    /\ IsDefault
    /\ hist # <<>>
    /\ hist[1].B = SmokeBatch
    /\ hist[1].out.ok
    /\ hist[1].stages[4].att.called

\* C3: in any sequence of forward calls on one instance, with any batch sizes,
\* every call completes and returns (B_i, num_classes), whatever the batch sizes of
\* the earlier calls.  Stated for the instances whose first call succeeded.
C3_EveryCallReturnsLogits ==
    (pc = "constructed" /\ hist # <<>> /\ hist[1].out.ok) =>
        \A i \in DOMAIN hist : hist[i].out = Logits(hist[i])

\* C4: a forward call only reads the learned parameters: after any number of
\* forward calls self.cls_token is still the tensor of shape (1, 1, embed_dims[3])
\* created at construction and the position embeddings keep their shapes.
C4_ParametersKeepShape ==
    pc = "constructed" =>
        /\ self.cls_token = Ok(<<1, 1, self.patch_embed[4].embedding_dim>>)
        /\ \A i \in 1..4 :
              self.pos_embed[i] =
                 Ok(<<1, self.patch_embed[i].num_patches + (IF i = 4 THEN 1 ELSE 0),
                      self.patch_embed[i].embedding_dim>>)

\* the spatial size (height = width) of a tensor a patch embedding receives
Square(t, n) == t.ok /\ Len(t.shape) = 4 /\ t.shape[2] = n /\ t.shape[3] = n

\* C6: a model whose construction succeeded receives at every stage a tensor whose
\* spatial size is the img_size that stage's PatchEmbedding was constructed with,
\* and so one its patch size divides: any other model fails at construction.
C6_StagesReceiveConstructedSize ==
    pc = "constructed" =>
        \A k \in DOMAIN hist : \A i \in 1..4 :
            hist[k].stages[i].recv.ok =>
                /\ Square(hist[k].stages[i].recv, self.patch_embed[i].img_size)
                /\ hist[k].stages[i].recv.shape[2] % self.patch_embed[i].patch_size = 0

----------------------------------------------------------------------------
(* Properties of the layers on their own, checked under SpecLayers *)

\* C5: a PatchEmbedding constructed with img_size % patch_size = 0, called on
\* (B, img_size, img_size, C), returns a sequence shaped
\* (B, (img_size/patch_size)^2, embedding_dim) and the spatial shape
\* (img_size/patch_size, img_size/patch_size), whose product is the sequence length.
\* C is the channel count the layer's projection was built for, as by its first call.
C5_PatchEmbeddingShape ==
    (pc = "constructed" /\ self.kind = "PatchEmbedding"
        /\ self.layer.img_size % self.layer.patch_size = 0) =>
        \A k \in DOMAIN hist :
            hist[k].inputs.shape[4] = hist[k].built_for =>
                /\ hist[k].out.x =
                      Ok(<<hist[k].inputs.shape[1],
                           (self.layer.img_size \div self.layer.patch_size)
                              * (self.layer.img_size \div self.layer.patch_size),
                           self.layer.embedding_dim>>)
                /\ hist[k].out.H = self.layer.img_size \div self.layer.patch_size
                /\ hist[k].out.W = self.layer.img_size \div self.layer.patch_size
                /\ hist[k].out.H * hist[k].out.W = hist[k].out.x.shape[2]

C5_Witness ==
    /\ pc = "constructed"
    /\ self.kind = "PatchEmbedding"
    /\ self.layer.patch_size > 1
    /\ self.layer.img_size > self.layer.patch_size
    /\ hist # <<>>
    /\ hist[1].inputs.shape[4] # Channels
    /\ hist[1].out.x.ok
    /\ hist[1].out.x.shape[2] > 1

\* C7: an attention layer whose embedding dimension is not divisible by its head
\* count fails at construction, for the Attention of pvt.py and that of model.py:
\* none is constructed, and none reaches its call method.
C7_AttentionNeedsDivisibleDim ==
    /\ (pc = "constructed" /\ self.kind = "Attention" /\ hist # <<>>) =>
          self.layer.dim % self.layer.num_heads = 0
    /\ (pc = "constructed" /\ self.kind = "ViTAttention" /\ hist # <<>>) =>
          self.layer.num_features % self.layer.num_heads = 0

\* the ClassToken call r was made on a layer built for the feature width of its input
ClsBuiltFor(r) == r.built_for = Ok(<<1, 1, r.inputs.shape[3]>>)

\* the PositionEmbedding call r was made on a layer built for its input's sequence
PosBuiltFor(r) == r.built_for = Ok(<<1, r.inputs.shape[2], r.inputs.shape[3]>>)

----------------------------------------------------------------------------
(* Property of the attention calls inside a PVT instance, checked under Spec *)

\* C9: the attention layer returns a tensor of its input's shape, (B, N, dim), for
\* every sr_ratio >= 1 and every (H, W) it is called with in a model, the final
\* stage with its extra class token included.
C9_AttentionPreservesShape ==
    pc = "constructed" =>
        \A k \in DOMAIN hist : \A i \in 1..4 :
            hist[k].stages[i].att.called =>
                hist[k].stages[i].att.out = Ok(hist[k].stages[i].att.inputs.shape)

----------------------------------------------------------------------------
(* Properties of Block and of the spatial reduction, checked under SpecLayers *)

\* C11: Block.call computes x = inputs + Attention(Norm1(inputs)) and returns
\* x + MLP(Norm2(x)): both sub-layers sit in a residual connection and each one's
\* input is the output of its own normalization, so the MLP is applied to the
\* normalized post-attention tensor and never to the un-normalized one.
C11_BlockPreNormResiduals ==
    (pc = "constructed" /\ self.kind = "Block") =>
        \A k \in DOMAIN hist :
            /\ hist[k].flow.x =
                  Term("+", <<Term("inputs", <<>>),
                              Term("attention",
                                   <<Term("norm1", <<Term("inputs", <<>>)>>)>>)>>)
            /\ hist[k].flow.mlp_in = Term("norm2", <<hist[k].flow.x>>)
            /\ hist[k].flow.out =
                  Term("+", <<hist[k].flow.x,
                              Term("mlp", <<Term("norm2", <<hist[k].flow.x>>)>>)>>)

\* floor(H / sr_ratio) * floor(W / sr_ratio)
FloorProduct(H, W, sr_ratio) == (H \div sr_ratio) * (W \div sr_ratio)

\* C12: an Attention with sr_ratio > 1 called on a sequence of N = H*W positions
\* downsamples the key/value source to a map of floor(H/sr_ratio) by
\* floor(W/sr_ratio) positions and flattens it to exactly
\* floor(H/sr_ratio) * floor(W/sr_ratio) positions of dim features, the query keeps
\* length N, the attention weights are shaped
\* (B, num_heads, N, floor(H/sr_ratio) * floor(W/sr_ratio)), and the length the
\* reshape asks for is that product, for all H, W and sr_ratio.
C12_ReducedKeyValueLength ==
    (pc = "constructed" /\ self.kind = "Attention" /\ self.layer.sr_ratio > 1) =>
        \A k \in DOMAIN hist :
            (hist[k].op = "Attention"
                /\ hist[k].inputs.shape[2] = hist[k].H * hist[k].W) =>
                /\ hist[k].reduced_len =
                      FloorProduct(hist[k].H, hist[k].W, self.layer.sr_ratio)
                /\ hist[k].reduced =
                      Ok(<<hist[k].inputs.shape[1],
                           hist[k].H \div self.layer.sr_ratio,
                           hist[k].W \div self.layer.sr_ratio,
                           self.layer.dim>>)
                /\ hist[k].src =
                      Ok(<<hist[k].inputs.shape[1],
                           FloorProduct(hist[k].H, hist[k].W, self.layer.sr_ratio),
                           self.layer.dim>>)
                /\ hist[k].q =
                      Ok(<<hist[k].inputs.shape[1], self.layer.num_heads,
                           hist[k].inputs.shape[2], self.layer.head_dim>>)
                /\ hist[k].weights =
                      Ok(<<hist[k].inputs.shape[1], self.layer.num_heads,
                           hist[k].inputs.shape[2],
                           FloorProduct(hist[k].H, hist[k].W, self.layer.sr_ratio)>>)

====
